---- MODULE Spec2Model ----
(***************************************************************************)
(* The API gateway (src/unnamed/part_000, lines 31-452) as a state         *)
(* machine.  A request runs through the synchronous express pipeline       *)
(*   rateLimit -> cors -> verifyJWT -> /auth proxy -> bridged endpoints    *)
(*   -> proxy rules -> /health -> express' own 404 / the error handler     *)
(* in one step (HandleRequest); what follows is driven by the events of    *)
(* the outbound call: the proxy's socket, the upstream's response or       *)
(* failure, the two timers of a proxy rule, the RPC callback.              *)
(*                                                                         *)
(* Paths and header values are sequences of one-character strings, so      *)
(* that String.startsWith, express' mount matching and the re-attachment   *)
(* of a prefix are computed, not assumed.                                  *)
(***************************************************************************)
EXTENDS Naturals, Sequences, FiniteSets, TLC

VARIABLES req, up, env, phase

vars == <<req, up, env, phase>>

\* ------------------------------------------------------------------ bounds
\* Number of request slots (requests the gateway sees in one behaviour).
MaxReqs == 1

Reqs == 1..MaxReqs

\* The connections open at once where requests are studied together.
MaxConc == 2

ConcReqs == 1..MaxConc

\* ------------------------------------------------------- program constants
\* grpc.status.NOT_FOUND
GRPC_NOT_FOUND == 5
\* The errors an RPC callback is called with here: NOT_FOUND from the
\* backend, INTERNAL from the backend, UNAVAILABLE from the channel when the
\* backend cannot be reached.
RpcErrors == {
    [code |-> GRPC_NOT_FOUND, message |-> "5 NOT_FOUND: no such blog"],
    [code |-> 13, message |-> "13 INTERNAL: failed"],
    [code |-> 14, message |-> "14 UNAVAILABLE: No connection established"] }

\* --------------------------------------------------------------- the environment
\* The variables the startup check requires.
requiredEnv == {
    "AUTH_SERVICE_URL", "STAKEHOLDERS_SERVICE_URL", "BLOG_SERVICE_URL",
    "TOUR_SERVICE_URL", "FOLLOWERS_SERVICE_URL", "PAYMENTS_SERVICE_URL" }

\* The addresses the two RPC clients are constructed with.
GrpcHosts == {"BLOG_SERVICE_GRPC_HOST", "TOUR_SERVICE_GRPC_HOST"}

\* Every variable the gateway reads (PORT has a default).
AllEnv == requiredEnv \cup GrpcHosts \cup {"JWT_SECRET"}

\* ----------------------------------------------------------------- strings
sl == <<"/">>
sAuth == <<"/", "a", "u", "t", "h">>
sStakeholders == <<"/", "s", "t", "a", "k", "e", "h", "o", "l", "d", "e", "r", "s">>
sApi == <<"/", "a", "p", "i">>
sBlog == sApi \o <<"/", "b", "l", "o", "g">>
sComment == <<"/", "c", "o", "m", "m", "e", "n", "t">>
sTour == sApi \o <<"/", "t", "o", "u", "r">>
sTourExecution == sTour \o <<"-", "e", "x", "e", "c", "u", "t", "i", "o", "n">>
sFollowers == sApi \o <<"/", "f", "o", "l", "l", "o", "w", "e", "r", "s">>
sCarts == sApi \o <<"/", "c", "a", "r", "t", "s">>
sHealth == <<"/", "h", "e", "a", "l", "t", "h">>
sLogin == <<"/", "l", "o", "g", "i", "n">>
sSeven == <<"/", "7">>
sBearerSp == <<"B", "e", "a", "r", "e", "r", " ">>
sBasicSp == <<"B", "a", "s", "i", "c", " ">>

\* String.prototype.startsWith
StartsWith(s, p) == Len(s) >= Len(p) /\ SubSeq(s, 1, Len(p)) = p

\* What is left of s after its first n characters.
Drop(s, n) == SubSeq(s, n + 1, Len(s))

\* ------------------------------------------------------- express matching
\* Length of the text that the layer of app.use(prefix, ...) matches at the
\* start of path, 0 when it does not match.  The layer's pattern is
\* ^prefix\/?(?=\/|$): the prefix, then the end of the path or
\* a "/" (a trailing "/" belongs to the match only when nothing but the end
\* or another "/" follows it).
MountMatchLen_NoBoundary(prefix, path) ==
    IF StartsWith(path, prefix) THEN Len(prefix) ELSE 0

MountMatchLen(prefix, path) ==
    LET rest == Drop(path, Len(prefix))
    IN  IF ~StartsWith(path, prefix) THEN 0
        ELSE IF rest = <<>> THEN Len(prefix)
        ELSE IF rest[1] # "/" THEN 0
        ELSE IF Len(rest) = 1 \/ rest[2] = "/" THEN Len(prefix) + 1
        ELSE Len(prefix)

MountMatches(prefix, path) == MountMatchLen(prefix, path) > 0

\* req.url inside a mounted middleware: the matched text removed and a
\* leading "/" ensured.
MountStrip(prefix, path) ==
    LET url == Drop(path, MountMatchLen(prefix, path))
    IN  IF url = <<>> \/ url[1] # "/" THEN sl \o url ELSE url

\* The layer of app.post(route, ...), app.patch(route, ...), app.get(route,
\* ...): ^route\/?$.
RouteMatches(route, path) == path = route \/ path = route \o sl

\* ------------------------------------------------------------- credentials
\* Tokens are header "." payload "." signature; the payload "P" is not
\* expired and "p" is, the signature "S" is the one made with JWT_SECRET and
\* "s" is not.
tValid == <<"H", ".", "P", ".", "S">>
tExpired == <<"H", ".", "p", ".", "S">>
tBadSig == <<"H", ".", "P", ".", "s">>
tGarbage == <<"x">>

\* Index of the first " " of s, 0 when there is none.
FirstSpace(s) ==
    LET at == {i \in 1..Len(s) : s[i] = " "}
    IN  IF at = {} THEN 0 ELSE CHOOSE i \in at : \A j \in at : i <= j

\* authHeader.split(" ")[1]: the text between the first " " and the next
\* one (or the end).  Only called on headers that start with "Bearer ".
SplitSecond(h) ==
    LET rest == Drop(h, FirstSpace(h))
        n == FirstSpace(rest)
    IN  IF n = 0 THEN rest ELSE SubSeq(rest, 1, n - 1)

\* Number of "." in a token.
Dots(t) == Cardinality({i \in 1..Len(t) : t[i] = "."})

\* jwt.verify(token, secret): the decoded payload, or the error it throws.
\* In the order of the library: a token must be provided, must have three
\* parts, needs a secret to be checked against (process.env.JWT_SECRET),
\* must carry the right signature, must not be expired.
JwtVerify(token) ==
    IF token = <<>> THEN [ok |-> FALSE, err |-> "jwt must be provided"]
    ELSE IF Dots(token) # 2 THEN [ok |-> FALSE, err |-> "jwt malformed"]
    ELSE IF "JWT_SECRET" \notin env
    THEN [ok |-> FALSE, err |-> "secret or public key must be provided"]
    ELSE IF token[Len(token)] # "S" THEN [ok |-> FALSE, err |-> "invalid signature"]
    ELSE IF token[3] # "P" THEN [ok |-> FALSE, err |-> "jwt expired"]
    ELSE [ok |-> TRUE, err |-> ""]

GateBypass_BareOnly(path) == path = sAuth

\* The bypass test of verifyJWT: req.originalUrl.startsWith("/auth").
GateBypass(path) == StartsWith(path, sAuth)

\* The header test of verifyJWT: !authHeader || !authHeader.startsWith("Bearer ").
NoToken(h) == h = <<>> \/ ~StartsWith(h, sBearerSp)

VerifyJWT_Catch401(path, h) ==
    IF GateBypass(path) THEN "bypassed"
    ELSE IF NoToken(h) THEN "rejected401"
    ELSE IF JwtVerify(SplitSecond(h)).ok THEN "verified"
    ELSE "rejected401"

\* verifyJWT: "bypassed" (next() without a look at the header), "verified"
\* (next() with req.user set), or the rejection it answers with.
VerifyJWT(path, h) ==
    IF GateBypass(path) THEN "bypassed"
    ELSE IF NoToken(h) THEN "rejected401"
    ELSE IF JwtVerify(SplitSecond(h)).ok THEN "verified"
    ELSE "rejected403"

\* --------------------------------------------------------------- the stack
\* The layers in the order of their registration.  A proxy layer is mounted
\* on a prefix; a bridge or health layer is a route for one method and path.
\* rewrite: "reattach" is prefix + (path || ""), "strip" is the rule
\* {"^/api/followers": ""}, "none" is no pathRewrite.  service is the name in
\* the rule's 502 message, target the variable that holds the upstream's URL.
\* throws: the rule's onProxyReq and onProxyRes read a variable `target`
\* that no scope declares, outside any try.
Stack == <<
    [kind |-> "proxy", name |-> "auth", method |-> "ANY", at |-> sAuth,
     rewrite |-> "reattach", timeout |-> 30000, service |-> "auth",
     target |-> "AUTH_SERVICE_URL", throws |-> FALSE],
    [kind |-> "bridge", name |-> "Create", method |-> "POST", at |-> sBlog,
     rewrite |-> "none", timeout |-> 0, service |-> "blog",
     target |-> "BLOG_SERVICE_GRPC_HOST", throws |-> FALSE],
    [kind |-> "bridge", name |-> "PostComment", method |-> "PATCH", at |-> sBlog \o sComment,
     rewrite |-> "none", timeout |-> 0, service |-> "blog",
     target |-> "BLOG_SERVICE_GRPC_HOST", throws |-> FALSE],
    [kind |-> "bridge", name |-> "CreateTour", method |-> "POST", at |-> sTour,
     rewrite |-> "none", timeout |-> 0, service |-> "tour",
     target |-> "TOUR_SERVICE_GRPC_HOST", throws |-> FALSE],
    [kind |-> "proxy", name |-> "stakeholders", method |-> "ANY", at |-> sStakeholders,
     rewrite |-> "none", timeout |-> 30000, service |-> "stakeholders",
     target |-> "STAKEHOLDERS_SERVICE_URL", throws |-> FALSE],
    [kind |-> "proxy", name |-> "blog", method |-> "ANY", at |-> sBlog,
     rewrite |-> "reattach", timeout |-> 30000, service |-> "blog",
     target |-> "BLOG_SERVICE_URL", throws |-> FALSE],
    [kind |-> "proxy", name |-> "tour", method |-> "ANY", at |-> sTour,
     rewrite |-> "reattach", timeout |-> 10000, service |-> "tour",
     target |-> "TOUR_SERVICE_URL", throws |-> FALSE],
    [kind |-> "proxy", name |-> "tour-execution", method |-> "ANY", at |-> sTourExecution,
     rewrite |-> "reattach", timeout |-> 10000, service |-> "tour",
     target |-> "TOUR_SERVICE_URL", throws |-> TRUE],
    [kind |-> "proxy", name |-> "followers", method |-> "ANY", at |-> sFollowers,
     rewrite |-> "strip", timeout |-> 10000, service |-> "followers",
     target |-> "FOLLOWERS_SERVICE_URL", throws |-> FALSE],
    [kind |-> "proxy", name |-> "carts", method |-> "ANY", at |-> sCarts,
     rewrite |-> "reattach", timeout |-> 10000, service |-> "followers",
     target |-> "PAYMENTS_SERVICE_URL", throws |-> FALSE],
    [kind |-> "health", name |-> "health", method |-> "GET", at |-> sHealth,
     rewrite |-> "none", timeout |-> 0, service |-> "gateway",
     target |-> "", throws |-> FALSE] >>

LayerMatches_IgnoreMethod(i, method, path) ==
    IF Stack[i].kind = "proxy" THEN MountMatches(Stack[i].at, path)
    ELSE RouteMatches(Stack[i].at, path)

\* Does layer i take the request?  A mounted layer by its prefix, a route by
\* its method and its whole path.
LayerMatches(i, method, path) ==
    IF Stack[i].kind = "proxy" THEN MountMatches(Stack[i].at, path)
    ELSE Stack[i].method = method /\ RouteMatches(Stack[i].at, path)

Dispatch_LastMatch(method, path) ==
    LET hit == {i \in 1..Len(Stack) : LayerMatches(i, method, path)}
    IN  IF hit = {} THEN 0 ELSE CHOOSE i \in hit : \A j \in hit : i >= j

\* The first layer, in registration order, that takes the request; 0 when
\* none does.  No layer of this stack hands a request on with next().
Dispatch(method, path) ==
    LET hit == {i \in 1..Len(Stack) : LayerMatches(i, method, path)}
    IN  IF hit = {} THEN 0 ELSE CHOOSE i \in hit : \A j \in hit : i <= j

\* The upstream that a target variable names.
ServiceOfTarget(t) ==
    CASE t = "AUTH_SERVICE_URL" -> "auth"
      [] t = "STAKEHOLDERS_SERVICE_URL" -> "stakeholders"
      [] t = "BLOG_SERVICE_URL" -> "blog"
      [] t = "TOUR_SERVICE_URL" -> "tour"
      [] t = "FOLLOWERS_SERVICE_URL" -> "followers"
      [] t = "PAYMENTS_SERVICE_URL" -> "payments"
      [] OTHER -> "none"

Rewrite_Identity(i, url) == url

\* pathRewrite of layer i, applied to the path the mount left in req.url
\* (the rules re-attach the prefix because the mount stripped it).
Rewrite(i, url) ==
    CASE Stack[i].rewrite = "reattach" -> Stack[i].at \o url
      [] Stack[i].rewrite = "strip" ->
            IF StartsWith(url, sFollowers) THEN Drop(url, Len(sFollowers)) ELSE url
      [] OTHER -> url

ForwardedPath_Original(i, path) == path

\* The path layer i sends upstream for a request to path.
ForwardedPath(i, path) == Rewrite(i, MountStrip(Stack[i].at, path))

\* ------------------------------------------------------------------ inputs
Methods == {"GET", "POST", "PATCH", "OPTIONS"}

Paths == {
    sAuth, sAuth \o sLogin, sAuth \o <<"o", "r", "s">>,
    sHealth,
    sBlog, sBlog \o sComment,
    sTour, sTour \o sSeven, sTourExecution, sTourExecution \o sSeven,
    sStakeholders \o sSeven,
    sFollowers, sFollowers \o sSeven,
    sCarts \o sSeven,
    <<"/", "x">> }

\* Values of the Authorization header; <<>> is no header.
Headers == {
    <<>>, sBasicSp \o <<"x">>,
    sBearerSp \o tGarbage, sBearerSp \o tBadSig, sBearerSp \o tExpired,
    sBearerSp \o tValid }

\* Status codes an upstream answers with, and the errors of a connection.
UpstreamStatuses == {200, 401}
ConnectErrors == {"ECONNREFUSED"}

\* --------------------------------------------------------------- the state
\* One request: its input, how far the pipeline took it, the outbound call
\* and the response.  writes counts the responses begun on it, headersSent
\* is res.headersSent, end tells how a finished request ended: "sent" (the
\* response is complete), "destroyed" (the client's socket was destroyed),
\* "crashed" (the process died).
\* keys are the keys of the decoded body and payload the argument of the
\* RPC call, as pairs of a field and its value.  rpcCode is the outcome
\* the RPC callback was called with (0 for a reply, the error's code otherwise) and rpcText
\* its reply or error message.  checked tells whether the handler that wrote
\* the response tested res.headersSent first.
Idle == [stage |-> "idle", method |-> "", path |-> <<>>, header |-> <<>>,
         admission |-> "pending", gate |-> "notReached", layer |-> 0,
         fwdPath |-> <<>>, calls |-> 0, body |-> "unread",
         keys |-> {}, payload |-> {},
         status |-> 0, by |-> "none", message |-> "", error |-> "",
         writes |-> 0, headersSent |-> FALSE, end |-> "",
         rpcCode |-> 0, rpcText |-> "", checked |-> FALSE]

\* res.status(st).json({message, error}) and the like: a whole response.
Respond(q, st, by, message, error) ==
    [q EXCEPT !.status = st, !.by = by, !.message = message, !.error = error,
              !.writes = @ + 1, !.headersSent = TRUE,
              !.stage = "done", !.end = "sent"]

\* The global error handler: answers 500 unless a response was begun.
ErrorHandler(q) ==
    IF ~q.headersSent
    THEN [Respond(q, 500, "fallback", "Gateway internal error", "")
            EXCEPT !.checked = TRUE]
    ELSE q

OnError_Unguarded(q, i, err) ==
    [Respond(q, 502, "onError",
             "Gateway failed to reach " \o Stack[i].service \o " service", err)
       EXCEPT !.checked = TRUE]

\* onError of proxy layer i: answers 502 unless a response was begun.
OnError(q, i, err) ==
    IF ~q.headersSent
    THEN [Respond(q, 502, "onError",
                  "Gateway failed to reach " \o Stack[i].service \o " service", err)
            EXCEPT !.checked = TRUE]
    ELSE q

RpcFailureStatus_Always500(code) == 500

\* The status of the failure branch of an RPC callback.
RpcFailureStatus(code) == IF code = GRPC_NOT_FOUND THEN 404 ELSE 500

\* What a request's body is to express.json(): not decodable, or an object
\* with some of these keys.  "author" is a field of every bridged call,
\* "extra" of none.
BodyKeys == {"author", "extra"}

Bodies ==
    {[ok |-> FALSE, keys |-> {}]} \cup {[ok |-> TRUE, keys |-> k] : k \in SUBSET BodyKeys}

\* express.json() is a middleware of the three bridged routes only: the
\* body of any other request is never decoded (a proxy rule pipes it as it
\* comes), so one body stands for all of them.
BodiesOf(method, path) ==
    IF \E i \in 1..Len(Stack) :
            Stack[i].kind = "bridge" /\ LayerMatches(i, method, path)
    THEN Bodies
    ELSE {[ok |-> TRUE, keys |-> {}]}

\* The fields each bridged handler takes from req.body.
RpcFields(name) ==
    CASE name = "Create" -> {"author", "title", "description", "images"}
      [] name = "PostComment" -> {"blogId", "author", "text"}
      [] name = "CreateTour" ->
            {"author", "title", "description", "difficulty", "price", "tags",
             "keyPoints", "durations", "length"}
      [] OTHER -> {}

Payload_WholeBody(name, keys) == {<<f, "copied">> : f \in keys}

\* const { a, b } = req.body; client.Method({ a, b }, ...): the argument has
\* the handler's fields and no other; a field the body lacks is undefined.
Payload(name, keys) ==
    {<<f, IF f \in keys THEN "copied" ELSE "undefined">> : f \in RpcFields(name)}

\* The layer that took the request, once verifyJWT has let it pass.
\* A proxy layer computes the upstream path and opens the outbound request;
\* a bridge layer decodes the body (a failure goes to the error handler)
\* and makes the RPC call; the health layer answers; with no layer express
\* itself answers 404.
Route(q, body) ==
    LET i == Dispatch(q.method, q.path)
    IN  IF i = 0 THEN Respond(q, 404, "express", "Cannot " \o q.method, "")
        ELSE IF Stack[i].kind = "proxy"
        THEN [q EXCEPT !.layer = i, !.stage = "proxying",
                       !.fwdPath = ForwardedPath(i, q.path), !.calls = @ + 1]
        ELSE IF Stack[i].kind = "bridge"
        THEN IF body.ok
             THEN [q EXCEPT !.layer = i, !.stage = "rpcWait", !.body = "decoded",
                            !.keys = body.keys,
                            !.payload = Payload(Stack[i].name, body.keys),
                            !.calls = @ + 1]
             ELSE ErrorHandler([q EXCEPT !.layer = i, !.body = "undecodable"])
        ELSE Respond([q EXCEPT !.layer = i], 200, "health", "API Gateway is running", "")

Gate_NextAfterCatch(q, body) ==
    LET g == VerifyJWT(q.path, q.header)
        q1 == [q EXCEPT !.gate = g]
    IN  IF g = "rejected401" THEN Respond(q1, 401, "gate", "No token provided", "")
        ELSE Route(q1, body)

\* verifyJWT as a stage of the pipeline.
Gate(q, body) ==
    LET g == VerifyJWT(q.path, q.header)
        q1 == [q EXCEPT !.gate = g]
    IN  IF g = "rejected401" THEN Respond(q1, 401, "gate", "No token provided", "")
        ELSE IF g = "rejected403"
        THEN Respond(q1, 403, "gate", "Invalid or expired token", "")
        ELSE Route(q1, body)

\* The pipeline from the first middleware on: the rate limiter answers 429
\* to a request over the limit (it counts by the client's address; nothing
\* of the request is looked at, and nothing of it is kept here), cors
\* answers a preflight (OPTIONS) itself with 204, every other request goes
\* to verifyJWT.
Pipeline(method, path, header, limited, body) ==
    LET q == [Idle EXCEPT !.method = method, !.path = path, !.header = header]
    IN  IF limited
        THEN Respond([Idle EXCEPT !.admission = "limited"], 429, "rateLimit",
                     "Too many requests, please try again later.", "")
        ELSE IF method = "OPTIONS"
        THEN Respond([q EXCEPT !.admission = "preflight"], 204, "cors", "", "")
        ELSE Gate([q EXCEPT !.admission = "admitted"], body)

\* ------------------------------------------------------------------ actions
\* The process is started with a complete environment.
Init ==
    /\ req = [r \in Reqs |-> Idle]
    /\ up = TRUE
    /\ env = AllEnv
    /\ phase = "starting"

\* The process is started with any environment.
StartInit ==
    /\ req = [r \in Reqs |-> Idle]
    /\ up = TRUE
    /\ env \in SUBSET AllEnv
    /\ phase = "starting"

\* The variables of requiredEnv that are not set.
missingVars == requiredEnv \ env

\* The module's top level up to app.listen: process.exit(1) when a required
\* variable is missing; the constructor of an RPC client throws on an
\* address that is undefined, which nothing catches; otherwise the gateway
\* listens.  JWT_SECRET is read only when a token is verified.
Start ==
    /\ up
    /\ phase = "starting"
    /\ IF missingVars # {} \/ ~(GrpcHosts \subseteq env)
       THEN phase' = "exited" /\ up' = FALSE
       ELSE phase' = "listening" /\ UNCHANGED up
    /\ UNCHANGED <<req, env>>

\* A request arrives and runs through the pipeline.
HandleRequest(r) ==
    /\ up
    /\ phase = "listening"
    /\ req[r].stage = "idle"
    /\ \E method \in Methods, path \in Paths, header \in Headers,
          limited \in BOOLEAN :
        \E body \in BodiesOf(method, path) :
            req' = [req EXCEPT ![r] = Pipeline(method, path, header, limited, body)]
    /\ UNCHANGED <<up, env, phase>>

\* An exception that nothing catches ends the process: every request that
\* is not finished loses its connection.
Crash ==
    [r \in DOMAIN req |->
        IF req[r].stage \in {"idle", "done"} THEN req[r]
        ELSE [req[r] EXCEPT !.stage = "done", !.end = "crashed"]]

\* The outbound request got its socket: onProxyReq runs, in the socket's
\* event, where nothing catches what it throws.
OnProxyReq(r) ==
    /\ up
    /\ req[r].stage = "proxying"
    /\ IF Stack[req[r].layer].throws
       THEN req' = Crash /\ up' = FALSE
       ELSE req' = [req EXCEPT ![r].stage = "awaiting"] /\ UNCHANGED up
    /\ UNCHANGED <<env, phase>>

\* The upstream answers: onProxyRes runs, then status and headers are
\* written to the client and the body is piped.
UpstreamResponse(r) ==
    /\ up
    /\ req[r].stage = "awaiting"
    /\ \E st \in UpstreamStatuses :
          IF Stack[req[r].layer].throws
          THEN req' = Crash /\ up' = FALSE
          ELSE /\ req' = [req EXCEPT ![r].status = st, ![r].by = "upstream",
                                     ![r].writes = @ + 1, ![r].headersSent = TRUE,
                                     ![r].stage = "streaming"]
               /\ UNCHANGED up
    /\ UNCHANGED <<env, phase>>

\* The upstream's body ends: the response is complete.
StreamEnd(r) ==
    /\ up
    /\ req[r].stage = "streaming"
    /\ req' = [req EXCEPT ![r].stage = "done", ![r].end = "sent"]
    /\ UNCHANGED <<up, env, phase>>

\* The upstream's connection breaks while the body is piped: onError runs
\* on a response that was begun; the response is never ended.
StreamError(r) ==
    /\ up
    /\ req[r].stage = "streaming"
    /\ req' = [req EXCEPT ![r] =
                  [OnError(req[r], req[r].layer, "ECONNRESET") EXCEPT !.stage = "stalled"]]
    /\ UNCHANGED <<up, env, phase>>

\* The connection to the upstream fails: onError runs.
UpstreamError(r) ==
    /\ up
    /\ req[r].stage = "awaiting"
    /\ \E err \in ConnectErrors :
          req' = [req EXCEPT ![r] = OnError(req[r], req[r].layer, err)]
    /\ UNCHANGED <<up, env, phase>>

\* proxyTimeout expires: the outbound request is aborted and onError runs.
ProxyTimeout(r) ==
    /\ up
    /\ req[r].stage = "awaiting"
    /\ req' = [req EXCEPT ![r] = OnError(req[r], req[r].layer, "socket hang up")]
    /\ UNCHANGED <<up, env, phase>>

\* timeout expires on the client's socket: it is destroyed, nothing is
\* written.
SocketTimeout(r) ==
    /\ up
    /\ req[r].stage \in {"awaiting", "stalled"}
    /\ req' = [req EXCEPT ![r].stage = "done", ![r].end = "destroyed"]
    /\ UNCHANGED <<up, env, phase>>

RpcCallback_Retry(q, code, text) ==
    IF code # 0
    THEN [q EXCEPT !.rpcCode = code, !.rpcText = text, !.calls = @ + 1]
    ELSE Respond([q EXCEPT !.rpcCode = code, !.rpcText = text],
                 201, "bridge", text, "")

\* The RPC callback: with an error, the status of the error and its
\* message; with a reply, 201 and the reply.
RpcCallback(q, code, text) ==
    IF code # 0
    THEN Respond([q EXCEPT !.rpcCode = code, !.rpcText = text],
                 RpcFailureStatus(code), "bridge", text, "")
    ELSE Respond([q EXCEPT !.rpcCode = code, !.rpcText = text],
                 201, "bridge", text, "")

\* The backend replies.
RpcReply(r) ==
    /\ up
    /\ req[r].stage = "rpcWait"
    /\ req' = [req EXCEPT ![r] = RpcCallback(req[r], 0, "created resource")]
    /\ UNCHANGED <<up, env, phase>>

\* The call fails.
RpcError(r) ==
    /\ up
    /\ req[r].stage = "rpcWait"
    /\ \E err \in RpcErrors :
          req' = [req EXCEPT ![r] = RpcCallback(req[r], err.code, err.message)]
    /\ UNCHANGED <<up, env, phase>>

Next ==
    \/ Start
    \/ \E r \in Reqs :
        \/ HandleRequest(r)
        \/ OnProxyReq(r)
        \/ UpstreamResponse(r)
        \/ StreamEnd(r)
        \/ StreamError(r)
        \/ UpstreamError(r)
        \/ ProxyTimeout(r)
        \/ SocketTimeout(r)
        \/ RpcReply(r)
        \/ RpcError(r)

Spec == Init /\ [][Next]_vars

\* Requests side by side: several connections, each carrying a request
\* with a valid token to a proxy rule or to a bridged endpoint.
ConcMethods == {"GET", "POST"}

ConcPaths == {sBlog, sTour \o sSeven, sTourExecution \o sSeven}

ConcHeaders == {sBearerSp \o tValid}

ConcBodies == {b \in Bodies : b.keys = {}}

ConcInit ==
    /\ req = [r \in ConcReqs |-> Idle]
    /\ up = TRUE
    /\ env = AllEnv
    /\ phase = "starting"

ConcHandleRequest(r) ==
    /\ up
    /\ phase = "listening"
    /\ req[r].stage = "idle"
    /\ \E method \in ConcMethods, path \in ConcPaths, header \in ConcHeaders,
          body \in ConcBodies :
            req' = [req EXCEPT ![r] = Pipeline(method, path, header, FALSE, body)]
    /\ UNCHANGED <<up, env, phase>>

ConcNext ==
    \/ Start
    \/ \E r \in ConcReqs :
        \/ ConcHandleRequest(r)
        \/ OnProxyReq(r)
        \/ UpstreamResponse(r)
        \/ StreamEnd(r)
        \/ StreamError(r)
        \/ UpstreamError(r)
        \/ ProxyTimeout(r)
        \/ SocketTimeout(r)
        \/ RpcReply(r)
        \/ RpcError(r)

ConcSpec == ConcInit /\ [][ConcNext]_vars

\* The gateway started with any environment.
StartSpec == StartInit /\ [][Next]_vars

\* What the event loop guarantees: a socket's event is delivered and an
\* armed timer fires.  Nothing obliges a client to send a request, or an
\* upstream or an RPC backend to answer.
FairSpec ==
    /\ Spec
    /\ \A r \in Reqs :
          /\ WF_vars(OnProxyReq(r))
          /\ WF_vars(ProxyTimeout(r))
          /\ WF_vars(SocketTimeout(r))

\* ------------------------------------------------------------------- claims
\* A request that the filters in front of the gate let through: the rate
\* limiter did not answer it and it is no preflight that cors answers.
Admitted(r) == req[r].admission = "admitted"

\* path is prefix itself or lies under it (prefix, then "/").
UnderPrefix(path, prefix) == path = prefix \/ StartsWith(path, prefix \o sl)

\* No Authorization header, or one that does not start with "Bearer ".
NoCredential(h) == h = <<>> \/ SubSeq(h, 1, 7) # sBearerSp

\* The token of a Bearer header.
BearerToken(h) == SubSeq(h, 8, Len(h))

\* The name of the layer that took request r ("" when none did).
LayerName(r) == IF req[r].layer = 0 THEN "" ELSE Stack[req[r].layer].name

\* C1 (as claimed): an admitted request outside the prefix /auth that carries
\* no credential is answered 401 by the gate and reaches no later stage: no
\* layer takes it and no outbound call is made.
C1_NoCredentialIs401 ==
    \A r \in Reqs :
        (Admitted(r) /\ ~UnderPrefix(req[r].path, sAuth) /\ NoCredential(req[r].header))
            => (req[r].status = 401 /\ req[r].by = "gate"
                /\ req[r].layer = 0 /\ req[r].calls = 0)

\* C2 (as claimed): an admitted GET /health is answered 200, whatever its
\* credential.
C2_HealthIs200 ==
    \A r \in Reqs :
        (Admitted(r) /\ req[r].method = "GET" /\ req[r].path = sHealth)
            => req[r].status = 200

\* C3: a request to /api/tour-execution or below it that passes the gate is
\* taken by the tour-execution rule, never by the /api/tour rule, and the
\* path sent upstream starts with /api/tour-execution (so not with
\* /api/tour/).
C3_TourExecutionRule ==
    \A r \in Reqs :
        (req[r].gate = "verified" /\ UnderPrefix(req[r].path, sTourExecution))
            => /\ LayerName(r) = "tour-execution"
               /\ StartsWith(req[r].fwdPath, sTourExecution)
               /\ ~StartsWith(req[r].fwdPath, sTour \o sl)

C3_Witness ==
    \E r \in Reqs :
        /\ req[r].path = sTourExecution \o sSeven
        /\ LayerName(r) = "tour-execution"
        /\ req[r].fwdPath = sTourExecution \o sSeven

\* C4: on a bridged endpoint the status follows from the RPC outcome alone:
\* a reply gives 201 with the reply as body, the error NOT_FOUND gives 404,
\* any other error gives 500, and a failure's body carries the error's
\* message.
C4_RpcStatus ==
    \A r \in Reqs :
        (LayerName(r) \in {"Create", "PostComment", "CreateTour"} /\ req[r].by = "bridge")
            => /\ req[r].rpcCode = 0 => req[r].status = 201
               /\ req[r].rpcCode = 5 => req[r].status = 404
               /\ req[r].rpcCode \notin {0, 5} => req[r].status = 500
               /\ req[r].message = req[r].rpcText
               /\ req[r].error = ""

C4_Witness ==
    \E r \in Reqs :
        /\ LayerName(r) = "PostComment"
        /\ req[r].rpcCode = 5
        /\ req[r].status = 404

\* C5 (as claimed): the response that a rule's onError writes is 502, its
\* message names the service the rule forwards to, and its error is the
\* message of the underlying error.
C5_ErrorNamesService ==
    \A r \in Reqs :
        req[r].by = "onError"
            => /\ req[r].status = 502
               /\ req[r].message =
                    "Gateway failed to reach "
                        \o ServiceOfTarget(Stack[req[r].layer].target) \o " service"
               /\ req[r].error \in ConnectErrors \cup {"socket hang up"}

\* C6 (as claimed): every admitted request eventually gets a response, or
\* at least its connection ends.
C6_EveryRequestEnds ==
    \A r \in Reqs : Admitted(r) ~> (req[r].status # 0 \/ req[r].end # "")

\* C7 (as claimed): no request has two responses begun on it, and every
\* error response of the gateway (the gate's rejection, a rule's onError,
\* the failure branch of an RPC callback, the fallback handler) was written
\* after a test of res.headersSent.
C7_EveryErrorPathChecks ==
    \A r \in Reqs :
        /\ req[r].writes <= 1
        /\ (req[r].by \in {"gate", "onError", "fallback"}
                \/ (req[r].by = "bridge" /\ req[r].rpcCode # 0))
             => req[r].checked

\* C7 (amended): no request has two responses begun on it; the rules'
\* onError and the fallback handler write only after a test of
\* res.headersSent (the gate and the RPC callbacks write without one).
C7_AtMostOneResponse ==
    \A r \in Reqs :
        /\ req[r].writes <= 1
        /\ req[r].by \in {"onError", "fallback"} => req[r].checked

\* onError ran on a response that was begun, and wrote nothing.
C7_Witness ==
    \E r \in Reqs :
        /\ req[r].stage = "stalled"
        /\ req[r].by = "upstream"
        /\ req[r].writes = 1

\* C8: a request to /auth or below it bypasses the verifier whatever its
\* credential, goes to the auth rule, and is never answered by the gate
\* (a 401 or 403 it gets is the upstream's).
C8_AuthBypassesVerifier ==
    \A r \in Reqs :
        (Admitted(r) /\ UnderPrefix(req[r].path, sAuth))
            => /\ req[r].gate = "bypassed"
               /\ LayerName(r) = "auth"
               /\ req[r].by # "gate"
               /\ req[r].status \in {401, 403} => req[r].by = "upstream"

C8_Witness ==
    \E r \in Reqs :
        /\ req[r].path = sAuth \o sLogin
        /\ req[r].header = sBearerSp \o tExpired
        /\ req[r].gate = "bypassed"
        /\ req[r].stage = "awaiting"

\* C9 (as claimed): the gate answers 401 exactly when the credential is
\* missing or malformed (no header, no Bearer header, a Bearer value that is
\* no token of three parts), and 403 only when a token of three parts fails
\* its signature or expiry check; a rejected request goes no further.
C9_MalformedIs401 ==
    \A r \in Reqs :
        req[r].by = "gate"
            => /\ (NoCredential(req[r].header) \/ Dots(BearerToken(req[r].header)) # 2)
                    => req[r].status = 401
               /\ req[r].status = 403
                    => BearerToken(req[r].header) \in {tBadSig, tExpired}
               /\ req[r].layer = 0 /\ req[r].calls = 0

\* C9 (amended): the gate answers 401 exactly when there is no header or no
\* Bearer header, and 403 for every Bearer value that the verification
\* rejects: one that is no token, a bad signature, an expired token.  A
\* rejected request goes no further.
C9_RejectionByCause ==
    \A r \in Reqs :
        (Admitted(r) /\ req[r].gate # "bypassed")
            => /\ NoCredential(req[r].header)
                    <=> (req[r].status = 401 /\ req[r].by = "gate")
               /\ (~NoCredential(req[r].header)
                     /\ BearerToken(req[r].header) \in {tGarbage, tBadSig, tExpired})
                    <=> (req[r].status = 403 /\ req[r].by = "gate")
               /\ req[r].by = "gate"
                    => (req[r].layer = 0 /\ req[r].calls = 0 /\ req[r].stage = "done")

C9_Witness ==
    \E r \in Reqs :
        /\ req[r].header = sBearerSp \o tGarbage
        /\ req[r].status = 403
        /\ req[r].by = "gate"

\* C10 (as claimed): a request bypasses the verifier exactly when its path
\* is /auth or lies under it, that is when the /auth rule matches it.
C10_BypassIsAuthPrefix ==
    \A r \in Reqs :
        Admitted(r)
            => /\ req[r].gate = "bypassed" <=> UnderPrefix(req[r].path, sAuth)
               /\ req[r].gate = "bypassed" <=> MountMatches(sAuth, req[r].path)

\* What the design calls required configuration: the base URL of every
\* proxied service, the address of each RPC service, the signing secret.
RequiredConfig == requiredEnv \cup GrpcHosts \cup {"JWT_SECRET"}

\* C11 (as claimed): the gateway accepts requests only when every piece of
\* required configuration is present; with any of it absent the process
\* ends at startup.
C11_MissingConfigIsFatal ==
    phase = "listening" => RequiredConfig \subseteq env

\* The rules whose pathRewrite puts the prefix back.
ReattachRules == {"auth", "blog", "tour", "tour-execution", "carts"}

\* C12 (as claimed): a rule that re-attaches its prefix sends upstream the
\* path the client requested, for the bare prefix as for a sub-path.
C12_UpstreamGetsRequestedPath ==
    \A r \in Reqs :
        LayerName(r) \in ReattachRules => req[r].fwdPath = req[r].path

\* C12 (amended): a rule that re-attaches its prefix sends upstream its
\* prefix once, followed by what the mount left of the path: the requested
\* path for a sub-path, the prefix followed by "/" for the bare prefix.
C12_PrefixRestoredOnce ==
    \A r \in Reqs :
        LayerName(r) \in ReattachRules
            => LET at == Stack[req[r].layer].at
               IN  /\ req[r].path # at => req[r].fwdPath = req[r].path
                   /\ req[r].path = at => req[r].fwdPath = at \o sl
                   /\ ~StartsWith(Drop(req[r].fwdPath, Len(at)), at)

C12_Witness ==
    \E r \in Reqs :
        /\ LayerName(r) = "auth"
        /\ req[r].path = sAuth
        /\ req[r].fwdPath = sAuth \o sl

\* C13 (as claimed): the stakeholders rule sends upstream the path the
\* client requested, prefix included.
C13_StakeholdersUnchanged ==
    \A r \in Reqs :
        LayerName(r) = "stakeholders" => req[r].fwdPath = req[r].path

\* C14: the followers rule sends upstream the requested path without the
\* prefix /api/followers and otherwise as it was ("/" when nothing is
\* left), and the prefix is not in what it sends.
C14_FollowersPrefixStripped ==
    \A r \in Reqs :
        LayerName(r) = "followers"
            => LET left == SubSeq(req[r].path, Len(sFollowers) + 1, Len(req[r].path))
               IN  /\ req[r].fwdPath = (IF left = <<>> THEN sl ELSE left)
                   /\ ~StartsWith(req[r].fwdPath, sFollowers)

C14_Witness ==
    \E r \in Reqs :
        /\ LayerName(r) = "followers"
        /\ req[r].path = sFollowers \o sSeven
        /\ req[r].fwdPath = sSeven

\* The kind of the layer that took request r ("" when none did).
LayerKind(r) == IF req[r].layer = 0 THEN "" ELSE Stack[req[r].layer].kind

\* C15: a request causes at most one outbound call; a request that a bridge
\* or a proxy rule answered, with a failure as with a success, made exactly
\* one; a request that is still open after a call has made exactly one.
C15_AtMostOneCall ==
    \A r \in Reqs :
        /\ req[r].calls <= 1
        /\ req[r].by \in {"bridge", "onError", "upstream"} => req[r].calls = 1
        /\ req[r].stage \in {"proxying", "awaiting", "rpcWait"} => req[r].calls = 1
        /\ LayerKind(r) \notin {"bridge", "proxy"} => req[r].calls = 0

\* An RPC call failed and was not made again.
C15_Witness ==
    \E r \in Reqs :
        /\ LayerName(r) = "Create"
        /\ req[r].rpcCode = 14
        /\ req[r].status = 500
        /\ req[r].calls = 1

\* C16 (as claimed): what fails in one request ends that request only: a
\* request is ended by the death of the process only when it was its own
\* rule's callback that threw; every other request goes on to its own
\* response, failure or timeout.
C16_FailureEndsOnlyItsRequest ==
    \A r \in DOMAIN req :
        req[r].end = "crashed" => Stack[req[r].layer].throws

\* The prefixes of the proxy rules and the bridged endpoints, as the
\* design lists them.
RulePrefixes ==
    {sAuth, sStakeholders, sBlog, sTour, sTourExecution, sFollowers, sCarts}

BridgedEndpoints ==
    {<<"POST", sBlog>>, <<"PATCH", sBlog \o sComment>>, <<"POST", sTour>>}

\* No bridged endpoint, no rule prefix and not the health probe.
MatchesNothing(method, path) ==
    /\ <<method, path>> \notin BridgedEndpoints
    /\ \A prefix \in RulePrefixes : ~UnderPrefix(path, prefix)
    /\ <<method, path>> # <<"GET", sHealth>>

\* C17: an authenticated request that matches nothing is answered 404 in
\* the step that handles it, and no outbound call is made for it.
C17_NoRouteIs404 ==
    \A r \in Reqs :
        (req[r].gate = "verified" /\ MatchesNothing(req[r].method, req[r].path))
            => /\ req[r].status = 404
               /\ req[r].stage = "done"
               /\ req[r].layer = 0
               /\ req[r].calls = 0

C17_Witness ==
    \E r \in Reqs :
        /\ req[r].gate = "verified"
        /\ req[r].method = "POST"
        /\ req[r].path = sHealth
        /\ req[r].status = 404

\* C18 (as claimed): the callbacks of a proxy rule never come between the
\* upstream and the client: a request that a proxy rule took is never ended
\* by the death of the process, and a response the upstream began is the
\* one the client has.
C18_CallbacksNeverPrevent ==
    \A r \in Reqs :
        LayerKind(r) = "proxy"
            => /\ req[r].end # "crashed"
               /\ req[r].stage \in {"streaming", "stalled"}
                    => (req[r].by = "upstream" /\ req[r].status \in UpstreamStatuses)

C20_FallbackCatchesAll ==
    /\ phase = "listening" => up
    /\ \A r \in Reqs :
          req[r].body = "undecodable"
            => (req[r].status = 500 /\ req[r].by = "fallback"
                /\ req[r].message = "Gateway internal error")

\* C22: a request that verifyJWT has not verified was never forwarded to an
\* upstream other than the authentication service and never caused an RPC
\* call: a rejected request was given to no layer, and a request that went
\* round the verifier was taken by the /auth rule or by nothing.
C22_UnverifiedReachesOnlyAuth ==
    \A r \in Reqs :
        req[r].gate # "verified"
            => /\ LayerKind(r) # "bridge"
               /\ req[r].rpcCode = 0 /\ req[r].stage # "rpcWait"
               /\ req[r].calls > 0
                    => (LayerName(r) = "auth"
                        /\ Stack[req[r].layer].target = "AUTH_SERVICE_URL")
               /\ req[r].gate \in {"rejected401", "rejected403"}
                    => (req[r].layer = 0 /\ req[r].calls = 0)
               /\ req[r].gate = "bypassed"
                    => (LayerName(r) = "auth"
                        \/ (req[r].layer = 0 /\ req[r].status = 404))

\* A request without a credential was forwarded to the authentication
\* service and answered by it.
C22_Witness ==
    \E r \in Reqs :
        /\ req[r].gate = "bypassed"
        /\ req[r].header = <<>>
        /\ LayerName(r) = "auth"
        /\ req[r].by = "upstream"

\* C21: a bridged endpoint that decoded the body makes exactly one RPC call
\* whatever fields the body has: the call's argument has the endpoint's
\* fields and no other, a field of the body copied and a field it lacks
\* left undefined, and the only 4xx such a request gets is the 404 of the
\* backend's NOT_FOUND.
C21_AbsentFieldsForwarded ==
    \A r \in Reqs :
        (LayerKind(r) = "bridge" /\ req[r].body = "decoded")
            => LET F == RpcFields(LayerName(r))
               IN  /\ req[r].calls = 1
                   /\ {p[1] : p \in req[r].payload} = F
                   /\ Cardinality(req[r].payload) = Cardinality(F)
                   /\ \A f \in F :
                        <<f, IF f \in req[r].keys THEN "copied" ELSE "undefined">>
                            \in req[r].payload
                   /\ req[r].status \in 400..499
                        => (req[r].status = 404 /\ req[r].rpcCode = GRPC_NOT_FOUND)

\* A comment posted with an author, an unknown key and nothing else was
\* passed on and answered 201.
C21_Witness ==
    \E r \in Reqs :
        /\ LayerName(r) = "PostComment"
        /\ req[r].keys = {"author", "extra"}
        /\ <<"blogId", "undefined">> \in req[r].payload
        /\ <<"author", "copied">> \in req[r].payload
        /\ req[r].status = 201

====
